---- MODULE Spec2Model ----
(***************************************************************************)
(* Uninformed search for the 24-puzzle (HW1FinalSolution.py): the board    *)
(* helpers, breadth-first search and depth-limited depth-first search.     *)
(*                                                                         *)
(* A board state is a function 0..N_TILES-1 -> 0..N_TILES-1 (the Python    *)
(* tuple, 0-based).  Python lists are sequences; a Python None is the      *)
(* empty tuple, and an optional integer n that is not None is <<n>>.       *)
(***************************************************************************)
EXTENDS Integers, Sequences, FiniteSets, TLC

VARIABLES
    pc,             \* position of the running engine
    start,          \* argument start
    depth_limit,    \* argument depth_limit (DFS; None for a BFS run)
    node_limit,     \* argument node_limit: None or <<n>>
    time_limit_sec, \* argument time_limit_sec: None or <<t>>
    queue,          \* BFS: deque of states
    parent,         \* BFS: dict state -> parent state, in insertion order
    nodes,          \* DFS: list of {state, parent, depth}
    stack,          \* DFS: list of node indexes
    state,          \* state popped by the current iteration
    node_idx,       \* DFS: index popped by the current iteration
    pending,        \* neighbors the for loop has not visited yet
    stats,          \* the stats dict
    path,           \* the returned path (None until one is returned)
    board,          \* a board the helpers are applied to
    moves,          \* number of blank moves applied to board
    first,          \* outcome of the previous run on the same arguments
    input,          \* the parts a line of user input is made of
    parsed          \* what parse_state_from_csv made of the line

vars == <<pc, start, depth_limit, node_limit, time_limit_sec, queue, parent,
          nodes, stack, state, node_idx, pending, stats, path,
          board, moves, first, input, parsed>>

engineVars == <<pc, start, depth_limit, node_limit, time_limit_sec, queue,
                parent, nodes, stack, state, node_idx, pending, stats,
                path, first, input, parsed>>

-----------------------------------------------------------------------------
(* Bounds of the model *)

MaxScramble == 2     \* start states lie within this many moves of a seed
MaxDepthLimit == 3   \* depth_limit ranges over 0..MaxDepthLimit
MaxNodeLimit == 3    \* node_limit ranges over None, 1..MaxNodeLimit
MaxTimeLimit == 1    \* time_limit_sec ranges over None, 1..MaxTimeLimit
MaxGenerated == 110  \* an unlimited BFS run is followed up to this many nodes
MaxWalk == 2         \* blank moves applied to a board by the helper walk
MaxEdits == 2        \* alterations made to a well-formed line of input
MaxDeepLimit == 6    \* depth_limit of the one deep run, from the goal's twin

-----------------------------------------------------------------------------
(* Puzzle definitions and helpers *)

None == <<>>

SIZE == 5

N_TILES == SIZE * SIZE

Cells == 0 .. (N_TILES - 1)

GOAL_STATE == [i \in Cells |-> IF i < N_TILES - 1 THEN i + 1 ELSE 0]

\* state.index(0): the first index holding the blank
zero_index(s) == CHOOSE i \in Cells : s[i] = 0 /\ \A j \in 0 .. (i - 1) : s[j] # 0

\* the tuple obtained by exchanging the entries at indexes a and b
swap_cells(s, a, b) ==
    [i \in Cells |-> IF i = a THEN s[b] ELSE IF i = b THEN s[a] ELSE s[i]]

\* move_offsets with the left move guarded by zero_index > 0
move_offsets_wrapping(s) ==
    LET row == zero_index(s) \div SIZE
        col == zero_index(s) % SIZE
    IN  (IF row > 0 THEN << -SIZE >> ELSE << >>)
        \o (IF row < SIZE - 1 THEN << SIZE >> ELSE << >>)
        \o (IF zero_index(s) > 0 THEN << -1 >> ELSE << >>)
        \o (IF col < SIZE - 1 THEN << 1 >> ELSE << >>)

\* move_offsets with the left move appended before the down move
move_offsets_left_first(s) ==
    LET row == zero_index(s) \div SIZE
        col == zero_index(s) % SIZE
    IN  (IF row > 0 THEN << -SIZE >> ELSE << >>)
        \o (IF col > 0 THEN << -1 >> ELSE << >>)
        \o (IF row < SIZE - 1 THEN << SIZE >> ELSE << >>)
        \o (IF col < SIZE - 1 THEN << 1 >> ELSE << >>)

move_offsets(s) ==
    LET row == zero_index(s) \div SIZE
        col == zero_index(s) % SIZE
    IN  (IF row > 0 THEN << -SIZE >> ELSE << >>)
        \o (IF row < SIZE - 1 THEN << SIZE >> ELSE << >>)
        \o (IF col > 0 THEN << -1 >> ELSE << >>)
        \o (IF col < SIZE - 1 THEN << 1 >> ELSE << >>)

get_neighbors(s) ==
    LET z == zero_index(s)
        offs == move_offsets(s)
    IN  [k \in 1 .. Len(offs) |-> swap_cells(s, z, z + offs[k])]

RECURSIVE inversions_from_with_blank(_, _)
\* inversions_from without the blank filtered out
inversions_from_with_blank(s, i) ==
    IF i >= N_TILES THEN 0
    ELSE Cardinality({j \in (i + 1) .. (N_TILES - 1) : s[i] > s[j]})
         + inversions_from_with_blank(s, i + 1)

\* inversion_count without the blank filtered out
inversion_count_with_blank(s) == inversions_from_with_blank(s, 0)

RECURSIVE inversions_from(_, _)
\* the pairs (i', j) with i <= i' < j of non-blank entries out of order: the
\* passes of the outer loop from position i on
inversions_from(s, i) ==
    IF i >= N_TILES THEN 0
    ELSE Cardinality({j \in (i + 1) .. (N_TILES - 1) :
                         s[i] # 0 /\ s[j] # 0 /\ s[i] > s[j]})
         + inversions_from(s, i + 1)

inversion_count(s) == inversions_from(s, 0)

is_solvable_5x5(s) == (inversion_count(s) % 2) = 0

-----------------------------------------------------------------------------
(* Inputs: valid boards near the goal, and their unsolvable twins *)

Range(seq) == {seq[i] : i \in DOMAIN seq}

RECURSIVE Within(_, _)
\* the boards at most k blank moves away from the boards of S
Within(S, k) ==
    IF k = 0 THEN S
    ELSE LET P == Within(S, k - 1)
         IN  P \cup UNION {Range(get_neighbors(s)) : s \in P}

\* the board with the cells holding tiles 1 and 2 exchanged
Twin(s) ==
    LET a == CHOOSE i \in Cells : s[i] = 1
        b == CHOOSE i \in Cells : s[i] = 2
    IN  swap_cells(s, a, b)

NearGoal == Within({GOAL_STATE}, MaxScramble)

StartStates == NearGoal \cup {Twin(s) : s \in NearGoal}

Option(S) == {None} \cup {<<x>> : x \in S}

NodeLimits == Option(1 .. MaxNodeLimit)

TimeLimits == Option(1 .. MaxTimeLimit)

DepthLimits == 0 .. MaxDepthLimit

MaxElapsed == MaxTimeLimit + 1

-----------------------------------------------------------------------------
(* Python containers *)

Reverse(seq) == [i \in 1 .. Len(seq) |-> seq[Len(seq) + 1 - i]]

\* key in d that looks at the first inserted key only
InDictFirstOnly(d, k) == d # << >> /\ d[1].key = k

\* key in d, for a dict kept as a sequence of [key, val] in insertion order
InDict(d, k) == \E i \in DOMAIN d : d[i].key = k

\* d[key]
Get(d, k) == d[CHOOSE i \in DOMAIN d : d[i].key = k].val

Keys(d) == {d[i].key : i \in DOMAIN d}

new_stats(name) ==
    [algorithm |-> name, expanded |-> 0, generated |-> 0, max_frontier |-> 0,
     found |-> FALSE, solution_moves |-> None, stopped_reason |-> None]

Max(a, b) == IF a >= b THEN a ELSE b

time_reason(t) == [msg |-> "Time limit reached", arg |-> t]

node_reason(n) == [msg |-> "Node limit reached", arg |-> n]

\* the values time.time() - start_time can have when a loop head reads the
\* clock; the reading is not kept by the program
ClockReadings == 0 .. MaxElapsed

timed_out(now) == time_limit_sec # None /\ now > time_limit_sec[1]

\* clear() left out
not_cleared(seq) == seq

\* queue.clear(), stack.clear()
cleared(seq) == << >>

\* popleft() that leaves the state in the queue
popleft_peek(q) == q

\* the queue after queue.popleft()
popleft(q) == Tail(q)

\* node_limit_reached with == for >=
node_limit_reached_exactly(generated, limit) ==
    limit # None /\ generated = limit[1]

\* node_limit_reached with > for >=
node_limit_reached_late(generated, limit) ==
    limit # None /\ generated > limit[1]

\* node_limit is not None and stats["generated"] >= node_limit
node_limit_reached(generated, limit) == limit # None /\ generated >= limit[1]

-----------------------------------------------------------------------------
(* BFS *)

RECURSIVE bfs_chain_stops_early(_, _)
\* bfs_chain with the walk ended at the node whose parent is None
bfs_chain_stops_early(par, cur) ==
    IF Get(par, cur) = None THEN << >>
    ELSE <<cur>> \o bfs_chain_stops_early(par, Get(par, cur))

RECURSIVE bfs_chain(_, _)
\* the states met following parent links from cur up to the root
bfs_chain(par, cur) ==
    IF cur = None THEN << >>
    ELSE <<cur>> \o bfs_chain(par, Get(par, cur))

\* bfs_path without path.reverse()
bfs_path_unreversed(par, goal) == bfs_chain(par, goal)

bfs_path(par, goal) == Reverse(bfs_chain(par, goal))

BfsInit ==
    /\ pc = "bfs_while"
    /\ start \in StartStates
    /\ depth_limit = None
    /\ node_limit \in NodeLimits
    /\ time_limit_sec \in TimeLimits
    /\ queue = <<start>>
    /\ parent = <<[key |-> start, val |-> None]>>
    /\ nodes = << >>
    /\ stack = << >>
    /\ state = None
    /\ node_idx = None
    /\ pending = << >>
    /\ stats = [new_stats("BFS") EXCEPT !.generated = 1]
    /\ path = None

\* while queue: the queue is empty, fall through to the final return
BfsExhausted ==
    /\ pc = "bfs_while"
    /\ queue = << >>
    /\ pc' = "returned"
    /\ path' = None
    /\ UNCHANGED <<start, depth_limit, node_limit, time_limit_sec,
                   queue, parent, nodes, stack, state, node_idx, pending,
                   stats, board, moves, first, input, parsed>>

\* the time limit check made after the pop instead of before it
BfsTimeLimitAfterPop ==
    /\ pc = "bfs_while"
    /\ queue # << >>
    /\ \E now \in ClockReadings : timed_out(now)
    /\ queue' = popleft(queue)
    /\ state' = Head(queue)
    /\ stats' = [stats EXCEPT !.stopped_reason = time_reason(time_limit_sec[1])]
    /\ pc' = "returned"
    /\ path' = None
    /\ UNCHANGED <<start, depth_limit, node_limit, time_limit_sec,
                   parent, nodes, stack, node_idx, pending, board,
                   moves, first, input, parsed>>

\* the time limit check at the head of the loop fails the run
BfsTimeLimit ==
    /\ pc = "bfs_while"
    /\ queue # << >>
    /\ \E now \in ClockReadings : timed_out(now)
    /\ stats' = [stats EXCEPT !.stopped_reason = time_reason(time_limit_sec[1])]
    /\ pc' = "returned"
    /\ path' = None
    /\ UNCHANGED <<start, depth_limit, node_limit, time_limit_sec, queue,
                   parent, nodes, stack, state, node_idx, pending, board,
                   moves, first, input, parsed>>

\* the popped state is the goal: reconstruct the path and return it
BfsGoal ==
    /\ pc = "bfs_while"
    /\ queue # << >>
    /\ Head(queue) = GOAL_STATE
    /\ \E now \in ClockReadings : ~timed_out(now)
    /\ queue' = popleft(queue)
    /\ state' = Head(queue)
    /\ path' = bfs_path(parent, Head(queue))
    /\ stats' = [stats EXCEPT
                    !.max_frontier = Max(stats.max_frontier, Len(queue)),
                    !.found = TRUE,
                    !.solution_moves = <<Len(bfs_path(parent, Head(queue))) - 1>>]
    /\ pc' = "returned"
    /\ UNCHANGED <<start, depth_limit, node_limit, time_limit_sec, parent,
                   nodes, stack, node_idx, pending, board, moves, first, input, parsed>>

\* the popped state is not the goal: count the expansion and enter the for loop
BfsExpand ==
    /\ pc = "bfs_while"
    /\ queue # << >>
    /\ Head(queue) # GOAL_STATE
    /\ \E now \in ClockReadings : ~timed_out(now)
    /\ queue' = popleft(queue)
    /\ state' = Head(queue)
    /\ stats' = [stats EXCEPT
                    !.max_frontier = Max(stats.max_frontier, Len(queue)),
                    !.expanded = stats.expanded + 1]
    /\ pending' = get_neighbors(Head(queue))
    /\ pc' = IF get_neighbors(Head(queue)) = << >> THEN "bfs_while" ELSE "bfs_for"
    /\ UNCHANGED <<start, depth_limit, node_limit, time_limit_sec, parent,
                   nodes, stack, node_idx, path, board, moves, first, input, parsed>>

\* one pass of the for loop over a neighbor already in parent
BfsSkip ==
    /\ pc = "bfs_for"
    /\ InDict(parent, Head(pending))
    /\ pending' = Tail(pending)
    /\ pc' = IF Tail(pending) = << >> THEN "bfs_while" ELSE "bfs_for"
    /\ UNCHANGED <<start, depth_limit, node_limit, time_limit_sec,
                   queue, parent, nodes, stack, state, node_idx, stats, path,
                   board, moves, first, input, parsed>>

\* one pass of the for loop over a new neighbor, node limit check included;
\* a run is followed until MaxGenerated nodes are generated
BfsGenerate ==
    /\ pc = "bfs_for"
    /\ ~InDict(parent, Head(pending))
    /\ stats.generated < MaxGenerated
    /\ parent' = Append(parent, [key |-> Head(pending), val |-> state])
    /\ IF node_limit_reached(stats.generated + 1, node_limit)
       THEN /\ stats' = [stats EXCEPT
                            !.generated = stats.generated + 1,
                            !.stopped_reason = node_reason(node_limit[1])]
            /\ queue' = cleared(Append(queue, Head(pending)))
            /\ pending' = << >>
            /\ pc' = "bfs_while"
       ELSE /\ stats' = [stats EXCEPT !.generated = stats.generated + 1]
            /\ queue' = Append(queue, Head(pending))
            /\ pending' = Tail(pending)
            /\ pc' = IF Tail(pending) = << >> THEN "bfs_while" ELSE "bfs_for"
    /\ UNCHANGED <<start, depth_limit, node_limit, time_limit_sec,
                   nodes, stack, state, node_idx, path, board, moves, first, input, parsed>>

-----------------------------------------------------------------------------
(* DFS (depth-limited, path-only cycle avoidance) *)

\* nodes[i] for a 0-based node index i
node_at(nds, i) == nds[i + 1]

\* is_on_current_path returning after the first node examined
is_on_current_path_first_only(nds, node_index, candidate_state) ==
    node_index # None /\ node_at(nds, node_index[1]).state = candidate_state

\* is_on_current_path looking at every node generated so far
is_on_current_path_anywhere(nds, node_index, candidate_state) ==
    \E k \in DOMAIN nds : nds[k].state = candidate_state

RECURSIVE is_on_current_path(_, _, _)
\* node_index is None or <<i>>
is_on_current_path(nds, node_index, candidate_state) ==
    IF node_index = None THEN FALSE
    ELSE IF node_at(nds, node_index[1]).state = candidate_state THEN TRUE
    ELSE is_on_current_path(nds, node_at(nds, node_index[1]).parent,
                            candidate_state)

RECURSIVE dfs_chain(_, _)
\* the states met following parent indexes from node i up to the root
dfs_chain(nds, i) ==
    IF i = None THEN << >>
    ELSE <<node_at(nds, i[1]).state>> \o dfs_chain(nds, node_at(nds, i[1]).parent)

dfs_path(nds, i) == Reverse(dfs_chain(nds, i))

\* at_depth_limit with > for >=
at_depth_limit_strict(depth, limit) == depth > limit

\* at_depth_limit one level early
at_depth_limit_early(depth, limit) == depth + 1 >= limit

\* depth >= depth_limit
at_depth_limit(depth, limit) == depth >= limit

\* the entry pop() returns taken from the bottom of the stack
LastIsFirst(seq) == seq[1]

\* the entry stack.pop() returns
Last(seq) == seq[Len(seq)]

\* pop() that leaves the index on the stack
FrontKept(seq) == seq

Front(seq) == SubSeq(seq, 1, Len(seq) - 1)

DfsInit ==
    /\ pc = "dfs_while"
    /\ \/ /\ start \in StartStates
          /\ depth_limit \in DepthLimits
          /\ node_limit \in NodeLimits
          /\ time_limit_sec \in TimeLimits
       \/ /\ start = Twin(GOAL_STATE)
          /\ depth_limit = MaxDeepLimit
          /\ node_limit = None
          /\ time_limit_sec = None
    /\ queue = << >>
    /\ parent = << >>
    /\ nodes = <<[state |-> start, parent |-> None, depth |-> 0]>>
    /\ stack = <<0>>
    /\ state = None
    /\ node_idx = None
    /\ pending = << >>
    /\ stats = [new_stats("DFS (depth-limited)") EXCEPT !.generated = 1]
    /\ path = None

\* while stack: the stack is empty, fall through to the final return
DfsExhausted ==
    /\ pc = "dfs_while"
    /\ stack = << >>
    /\ pc' = "returned"
    /\ path' = None
    /\ UNCHANGED <<start, depth_limit, node_limit, time_limit_sec,
                   queue, parent, nodes, stack, state, node_idx, pending,
                   stats, board, moves, first, input, parsed>>

\* the time limit check at the head of the loop fails the run
DfsTimeLimit ==
    /\ pc = "dfs_while"
    /\ stack # << >>
    /\ \E now \in ClockReadings : timed_out(now)
    /\ stats' = [stats EXCEPT !.stopped_reason = time_reason(time_limit_sec[1])]
    /\ pc' = "returned"
    /\ path' = None
    /\ UNCHANGED <<start, depth_limit, node_limit, time_limit_sec, queue,
                   parent, nodes, stack, state, node_idx, pending, board,
                   moves, first, input, parsed>>

\* the popped node holds the goal: reconstruct the path and return it
DfsGoal ==
    /\ pc = "dfs_while"
    /\ stack # << >>
    /\ node_at(nodes, Last(stack)).state = GOAL_STATE
    /\ \E now \in ClockReadings : ~timed_out(now)
    /\ stack' = Front(stack)
    /\ node_idx' = <<Last(stack)>>
    /\ state' = node_at(nodes, Last(stack)).state
    /\ path' = dfs_path(nodes, <<Last(stack)>>)
    /\ stats' = [stats EXCEPT
                    !.max_frontier = Max(stats.max_frontier, Len(stack)),
                    !.found = TRUE,
                    !.solution_moves = <<Len(dfs_path(nodes, <<Last(stack)>>)) - 1>>]
    /\ pc' = "returned"
    /\ UNCHANGED <<start, depth_limit, node_limit, time_limit_sec, queue,
                   parent, nodes, pending, board, moves, first, input, parsed>>

\* DfsLeaf with the depth check made before the goal test
DfsLeafBeforeGoalTest ==
    /\ pc = "dfs_while"
    /\ stack # << >>
    /\ at_depth_limit(node_at(nodes, Last(stack)).depth, depth_limit)
    /\ \E now \in ClockReadings : ~timed_out(now)
    /\ stack' = Front(stack)
    /\ node_idx' = <<Last(stack)>>
    /\ state' = node_at(nodes, Last(stack)).state
    /\ stats' = [stats EXCEPT
                    !.max_frontier = Max(stats.max_frontier, Len(stack))]
    /\ UNCHANGED <<pc, start, depth_limit, node_limit, time_limit_sec, queue,
                   parent, nodes, pending, path, board, moves, first, input, parsed>>

\* the popped node is at the depth limit: continue with the next stack item
DfsLeaf ==
    /\ pc = "dfs_while"
    /\ stack # << >>
    /\ node_at(nodes, Last(stack)).state # GOAL_STATE
    /\ at_depth_limit(node_at(nodes, Last(stack)).depth, depth_limit)
    /\ \E now \in ClockReadings : ~timed_out(now)
    /\ stack' = Front(stack)
    /\ node_idx' = <<Last(stack)>>
    /\ state' = node_at(nodes, Last(stack)).state
    /\ stats' = [stats EXCEPT
                    !.max_frontier = Max(stats.max_frontier, Len(stack))]
    /\ UNCHANGED <<pc, start, depth_limit, node_limit, time_limit_sec, queue,
                   parent, nodes, pending, path, board, moves, first, input, parsed>>

\* the popped node is expanded: count it and enter the for loop
DfsExpand ==
    /\ pc = "dfs_while"
    /\ stack # << >>
    /\ node_at(nodes, Last(stack)).state # GOAL_STATE
    /\ ~at_depth_limit(node_at(nodes, Last(stack)).depth, depth_limit)
    /\ \E now \in ClockReadings : ~timed_out(now)
    /\ stack' = Front(stack)
    /\ node_idx' = <<Last(stack)>>
    /\ state' = node_at(nodes, Last(stack)).state
    /\ stats' = [stats EXCEPT
                    !.max_frontier = Max(stats.max_frontier, Len(stack)),
                    !.expanded = stats.expanded + 1]
    /\ pending' = get_neighbors(node_at(nodes, Last(stack)).state)
    /\ pc' = IF get_neighbors(node_at(nodes, Last(stack)).state) = << >>
             THEN "dfs_while" ELSE "dfs_for"
    /\ UNCHANGED <<start, depth_limit, node_limit, time_limit_sec, queue,
                   parent, nodes, path, board, moves, first, input, parsed>>

\* one pass of the for loop over a neighbor found on the current path
DfsSkip ==
    /\ pc = "dfs_for"
    /\ is_on_current_path(nodes, node_idx, Head(pending))
    /\ pending' = Tail(pending)
    /\ pc' = IF Tail(pending) = << >> THEN "dfs_while" ELSE "dfs_for"
    /\ UNCHANGED <<start, depth_limit, node_limit, time_limit_sec,
                   queue, parent, nodes, stack, state, node_idx, stats, path,
                   board, moves, first, input, parsed>>

\* one pass of the for loop over a neighbor off the current path, node limit
\* check included
DfsGenerate ==
    /\ pc = "dfs_for"
    /\ ~is_on_current_path(nodes, node_idx, Head(pending))
    /\ nodes' = Append(nodes, [state |-> Head(pending), parent |-> node_idx,
                               depth |-> node_at(nodes, node_idx[1]).depth + 1])
    /\ IF node_limit_reached(stats.generated + 1, node_limit)
       THEN /\ stats' = [stats EXCEPT
                            !.generated = stats.generated + 1,
                            !.stopped_reason = node_reason(node_limit[1])]
            /\ stack' = cleared(Append(stack, Len(nodes)))
            /\ pending' = << >>
            /\ pc' = "dfs_while"
       ELSE /\ stats' = [stats EXCEPT !.generated = stats.generated + 1]
            /\ stack' = Append(stack, Len(nodes))
            /\ pending' = Tail(pending)
            /\ pc' = IF Tail(pending) = << >> THEN "dfs_while" ELSE "dfs_for"
    /\ UNCHANGED <<start, depth_limit, node_limit, time_limit_sec,
                   queue, parent, state, node_idx, path, board, moves, first, input, parsed>>

-----------------------------------------------------------------------------

Init ==
    /\ BfsInit \/ DfsInit
    /\ board = None
    /\ moves = 0
    /\ first = None
    /\ input = None
    /\ parsed = None

Next ==
    \/ BfsExhausted
    \/ BfsTimeLimit
    \/ BfsGoal
    \/ BfsExpand
    \/ BfsSkip
    \/ BfsGenerate
    \/ DfsExhausted
    \/ DfsTimeLimit
    \/ DfsGoal
    \/ DfsLeaf
    \/ DfsExpand
    \/ DfsSkip
    \/ DfsGenerate

Spec == Init /\ [][Next]_vars

\* the program never idles while a step is possible
FairSpec == Spec /\ WF_vars(Next)

-----------------------------------------------------------------------------
(* The board helpers applied to boards with the blank in every cell *)

RECURSIVE Slide(_, _, _)
\* the board after n blank moves by the index offset off
Slide(s, off, n) ==
    IF n = 0 THEN s
    ELSE Slide(swap_cells(s, zero_index(s), zero_index(s) + off), off, n - 1)

\* a board blank moves away from the goal with the blank in row r, column c
BlankAt(r, c) == Slide(Slide(GOAL_STATE, -1, SIZE - 1 - c), -SIZE, SIZE - 1 - r)

SolvableSeeds == {BlankAt(r, c) : r \in 0 .. (SIZE - 1), c \in 0 .. (SIZE - 1)}

BoardSeeds == SolvableSeeds \cup {Twin(s) : s \in SolvableSeeds}

BoardInit ==
    /\ board \in BoardSeeds
    /\ moves = 0
    /\ pc = "idle"
    /\ start = None
    /\ depth_limit = None
    /\ node_limit = None
    /\ time_limit_sec = None
    /\ queue = << >>
    /\ parent = << >>
    /\ nodes = << >>
    /\ stack = << >>
    /\ state = None
    /\ node_idx = None
    /\ pending = << >>
    /\ stats = None
    /\ path = None
    /\ first = None
    /\ input = None
    /\ parsed = None

\* replace the board by one of its neighbors
MoveBlank ==
    /\ pc = "idle"
    /\ moves < MaxWalk
    /\ \E k \in DOMAIN get_neighbors(board) : board' = get_neighbors(board)[k]
    /\ moves' = moves + 1
    /\ UNCHANGED engineVars

BoardNext == MoveBlank

SpecBoard == BoardInit /\ [][BoardNext]_vars

-----------------------------------------------------------------------------
(* Vocabulary of the properties *)

IsBfs == stats.algorithm = "BFS"

IsDfs == stats.algorithm = "DFS (depth-limited)"

Returned == pc = "returned"

\* b is obtained from a by one blank move
IsMove(a, b) == b \in Range(get_neighbors(a))

RECURSIVE LayerDistance(_, _)
\* the number of further layers of the neighbor graph around S to add before
\* the goal is met, k layers having been added; -1 when MaxScramble layers do
\* not meet the goal
LayerDistance(S, k) ==
    IF GOAL_STATE \in S THEN k
    ELSE IF k = MaxScramble THEN -1
    ELSE LayerDistance(S \cup UNION {Range(get_neighbors(s)) : s \in S}, k + 1)

\* the least number of blank moves from s to the goal; -1 when the goal is
\* further than MaxScramble moves away
Distance(s) == LayerDistance({s}, 0)

\* the run has not popped anything yet
AtStart == pc \in {"bfs_while", "dfs_while"} /\ state = None

NoRepeat(p) == \A i, j \in DOMAIN p : i # j => p[i] # p[j]

Linked(p) == \A i \in 1 .. (Len(p) - 1) : IsMove(p[i], p[i + 1])

\* p is a simple path of blank moves from s to the goal
ValidSimplePath(p, s) ==
    /\ Len(p) >= 1
    /\ p[1] = s
    /\ p[Len(p)] = GOAL_STATE
    /\ Linked(p)
    /\ NoRepeat(p)

NodeIndexes == 0 .. (Len(nodes) - 1)

-----------------------------------------------------------------------------
(* Properties *)

\* C1: a path returned by bfs has len(path)-1 equal to the minimum number of
\* blank moves from start to GOAL_STATE, and stats.solution_moves equals
\* that minimum.
C1_BfsShortest ==
    (Returned /\ IsBfs /\ path # None) =>
        /\ Len(path) - 1 = Distance(start)
        /\ stats.solution_moves = <<Distance(start)>>

C1_Witness ==
    /\ Returned /\ IsBfs /\ path # None
    /\ node_limit = None
    /\ Len(path) - 1 >= 2

\* C2: a path returned by bfs starts at start, ends at GOAL_STATE, moves the
\* blank once between consecutive states and repeats no state.
C2_BfsPathValid ==
    (Returned /\ IsBfs /\ path # None) => ValidSimplePath(path, start)

C2_Witness ==
    /\ Returned /\ IsBfs /\ path # None
    /\ Len(path) = 3
    /\ path[2] # start /\ path[2] # GOAL_STATE

\* C3: a path returned by dfs_depth_limited has len(path)-1 <= depth_limit;
\* no node of depth >= depth_limit is expanded, and every node of the node
\* list has depth <= depth_limit.
C3_DfsDepthBound ==
    IsDfs =>
        /\ path # None => Len(path) - 1 <= depth_limit
        /\ pc = "dfs_for" => node_at(nodes, node_idx[1]).depth < depth_limit
        /\ \A i \in NodeIndexes : node_at(nodes, i).depth <= depth_limit

C3_Witness ==
    /\ IsDfs /\ Returned /\ path # None
    /\ depth_limit >= 2
    /\ Len(path) - 1 = depth_limit
    /\ \E i \in NodeIndexes :
          /\ node_at(nodes, i).depth = depth_limit
          /\ node_at(nodes, i).state # GOAL_STATE

\* C4: in dfs_depth_limited the chain of states from the root to any node of
\* the node list starts at start, moves the blank once between consecutive
\* states and repeats no state; a returned path starts at start, ends at
\* GOAL_STATE and repeats no state.
C4_DfsChainsSimple ==
    IsDfs =>
        /\ \A i \in NodeIndexes :
              LET chain == dfs_path(nodes, <<i>>)
                  up == node_at(nodes, i).parent
              IN  /\ chain[1] = start
                  /\ chain[Len(chain)] = node_at(nodes, i).state
                  /\ Len(chain) = node_at(nodes, i).depth + 1
                  /\ NoRepeat(chain)
                  \* the chain without its last state is the chain of the
                  \* parent node, so linking every node to its parent links
                  \* every chain
                  /\ up # None =>
                        /\ up[1] \in NodeIndexes
                        /\ IsMove(node_at(nodes, up[1]).state,
                                  node_at(nodes, i).state)
        /\ path # None => ValidSimplePath(path, start)

C4_Witness ==
    /\ IsDfs /\ Returned /\ path # None
    /\ Len(path) >= 3
    /\ Len(nodes) > Len(path)

\* C5: is_solvable_5x5 tells whether the goal is reachable: the goal has
\* inversion count 0, the start state of a run is solvable exactly when the
\* goal lies within the explored distance of it, every blank move the
\* engines make preserves the parity of inversion_count, and from a start
\* state with odd inversion count neither engine generates the goal.
C5_SolvableIffReachable ==
    /\ inversion_count(GOAL_STATE) = 0
    /\ AtStart => (is_solvable_5x5(start) <=> Distance(start) # -1)
    /\ state # None => is_solvable_5x5(state) = is_solvable_5x5(start)
    /\ pc \in {"bfs_for", "dfs_for"} =>
          inversion_count(Head(pending)) % 2 = inversion_count(state) % 2
    /\ (stats.found \/ path # None) => is_solvable_5x5(start)
    /\ (GOAL_STATE \in Keys(parent) \/
        \E i \in NodeIndexes : node_at(nodes, i).state = GOAL_STATE) =>
          is_solvable_5x5(start)

C5_Witness ==
    /\ ~is_solvable_5x5(start)
    /\ node_limit = None
    /\ stats.expanded >= 3
    /\ pending # << >>
    /\ zero_index(Head(pending)) # zero_index(state) + 1
    /\ zero_index(Head(pending)) # zero_index(state) - 1

Row(i) == i \div SIZE

Col(i) == i % SIZE

Abs(x) == IF x < 0 THEN -x ELSE x

\* cells a and b are orthogonal neighbors in the grid
Adjacent(a, b) == Abs(Row(a) - Row(b)) + Abs(Col(a) - Col(b)) = 1

\* C6: every neighbor of a valid board differs from it in exactly two cells,
\* the blank's cell and a cell orthogonally adjacent to it in the grid, with
\* the two values exchanged, and the board is a neighbor of that neighbor.
C6_NeighborIsAdjacentSwap ==
    pc = "idle" =>
        \A k \in DOMAIN get_neighbors(board) :
            LET n == get_neighbors(board)[k]
                z == zero_index(board)
                changed == {i \in Cells : n[i] # board[i]}
            IN  /\ Cardinality(changed) = 2
                /\ z \in changed
                /\ \A c \in changed \ {z} :
                      /\ Adjacent(z, c)
                      /\ n[c] = 0
                      /\ n[z] = board[c]
                /\ board \in Range(get_neighbors(n))

C6_Witness ==
    /\ pc = "idle"
    /\ moves >= 1
    /\ Col(zero_index(board)) = 0
    /\ Row(zero_index(board)) \in 1 .. (SIZE - 2)

\* the cells a blank at z can move to, in the order up, down, left, right
ExpectedTargets(z) ==
    LET InGrid(c) == c \in Cells /\ Adjacent(z, c)
    IN  SelectSeq(<<z - SIZE, z + SIZE, z - 1, z + 1>>, InGrid)

\* the number of grid borders the cell lies on
Borders(z) ==
    (IF Row(z) \in {0, SIZE - 1} THEN 1 ELSE 0)
    + (IF Col(z) \in {0, SIZE - 1} THEN 1 ELSE 0)

\* C7: get_neighbors returns 2 states for a blank in a corner, 3 for a blank
\* on a non-corner edge and 4 for an interior blank, pairwise distinct, in
\* the order up, down, left, right with unavailable directions omitted.
C7_NeighborCountAndOrder ==
    pc = "idle" =>
        LET ns == get_neighbors(board)
            z == zero_index(board)
        IN  /\ Len(ns) = 4 - Borders(z)
            /\ NoRepeat(ns)
            /\ [k \in DOMAIN ns |-> zero_index(ns[k])] = ExpectedTargets(z)

C7_Witness ==
    /\ pc = "idle"
    /\ moves >= 1
    /\ zero_index(board) = 0
    /\ Len(get_neighbors(board)) = 2

NoLimits == node_limit = None /\ time_limit_sec = None

C8_Case ==
    /\ NoLimits
    /\ AtStart
    /\ \/ IsDfs /\ Distance(start) \in 0 .. depth_limit
       \/ IsBfs /\ Distance(start) = 1

C8_Found ==
    /\ Returned
    /\ stats.found
    /\ path # None
    /\ IsBfs => stats.solution_moves = <<1>>

\* C8: with no node or time limit, dfs_depth_limited started at distance
\* d <= depth_limit from the goal returns a path with found = true, and bfs
\* started one blank move from the goal returns solution_moves = 1.
C8_GoalWithinDepthIsFound == C8_Case ~> C8_Found

C8_Witness ==
    /\ IsDfs /\ NoLimits /\ Returned
    /\ stats.found
    /\ depth_limit >= 2
    /\ Distance(start) = depth_limit

\* no loop-head time check has failed the run
TimeNotExpired ==
    ~(stats.stopped_reason # None /\ stats.stopped_reason.msg = "Time limit reached")

NodeLimitStop ==
    /\ path = None
    /\ ~stats.found
    /\ stats.stopped_reason # None
    /\ stats.stopped_reason.msg = "Node limit reached"
    /\ stats.generated \in {1, 2}

\* C9 as stated: for a non-goal start and node_limit = 1, either engine (dfs
\* with any depth_limit >= 0) returns no path, found = false, a stopped_reason
\* naming the node limit and generated 1 or 2.
C9_Original ==
    (Returned /\ start # GOAL_STATE /\ node_limit = <<1>>) => NodeLimitStop

\* C9: for a non-goal start, node_limit = 1 and a time limit, if any, that
\* has not expired at the first loop-head check, bfs and dfs_depth_limited
\* with depth_limit >= 1 return no path, found = false, a stopped_reason
\* naming the node limit and generated 1 or 2; dfs_depth_limited with
\* depth_limit = 0 returns no path, found = false, generated = 1 and no
\* stopped_reason.
C9_NodeLimitOne ==
    (Returned /\ start # GOAL_STATE /\ node_limit = <<1>> /\ TimeNotExpired) =>
        IF IsDfs /\ depth_limit = 0
        THEN /\ path = None
             /\ ~stats.found
             /\ stats.stopped_reason = None
             /\ stats.generated = 1
        ELSE NodeLimitStop

C9_Witness ==
    /\ Returned /\ start # GOAL_STATE /\ node_limit = <<1>> /\ TimeNotExpired
    /\ IsDfs /\ depth_limit >= 1
    /\ Distance(start) = 1
    /\ stats.generated = 2

GoalAtOnce ==
    /\ path = <<GOAL_STATE>>
    /\ stats.found
    /\ stats.solution_moves = <<0>>
    /\ stats.expanded = 0
    /\ stats.generated = 1

\* C10 as stated: started at GOAL_STATE, bfs (whatever node_limit) and
\* dfs_depth_limited (whatever depth_limit >= 0) return [GOAL_STATE] with
\* found = true, solution_moves = 0, expanded = 0 and generated = 1.
C10_Original == (Returned /\ start = GOAL_STATE) => GoalAtOnce

\* C10: started at GOAL_STATE with a time limit, if any, that has not expired
\* at the first loop-head check, bfs (whatever node_limit) and
\* dfs_depth_limited (whatever depth_limit >= 0) return [GOAL_STATE] with
\* found = true, solution_moves = 0, expanded = 0 and generated = 1.
C10_StartIsGoal ==
    (Returned /\ start = GOAL_STATE /\ TimeNotExpired) => GoalAtOnce

C10_Witness ==
    /\ Returned /\ start = GOAL_STATE /\ TimeNotExpired
    /\ IsDfs /\ depth_limit = 0
    /\ node_limit = <<1>>
    /\ stats.found

StoppedByLimit == stats.stopped_reason # None

\* the outcome recorded so far is consistent
OutcomeConsistent ==
    /\ StoppedByLimit =>
          /\ path = None
          /\ ~stats.found
          /\ stats.solution_moves = None
          /\ pc = "returned" \/ (pc = "bfs_while" /\ queue = << >>)
                             \/ (pc = "dfs_while" /\ stack = << >>)
    /\ stats.found =>
          /\ Returned
          /\ path # None
          /\ Len(path) >= 1
          /\ stats.solution_moves = <<Len(path) - 1>>
          /\ ~StoppedByLimit
    /\ Returned => (path # None <=> stats.found)

\* C11: a limit stop is a normal return; whenever stopped_reason is set the
\* path is none, found = false and solution_moves is unset; whenever
\* found = true the path is non-empty, solution_moves = len(path)-1 and
\* stopped_reason is unset; stopped_reason is written at most once per run
\* (once set, the only step left is the return, which leaves stats alone).
C11_OutcomeConsistent ==
    /\ []OutcomeConsistent
    /\ [][StoppedByLimit => (stats' = stats /\ pc' = "returned")]_vars

C11_Witness ==
    /\ Returned
    /\ StoppedByLimit
    /\ stats.stopped_reason.msg = "Node limit reached"
    /\ stats.generated >= 3
    /\ path = None

-----------------------------------------------------------------------------
(* The same engine called a second time on the same arguments *)

\* what the first call returned: the path and the stats of interest
outcome == [path |-> path, expanded |-> stats.expanded,
            generated |-> stats.generated,
            stopped_reason |-> stats.stopped_reason]

\* Rerun with the stats dict of the first call kept, only the keys the
\* engine assigns before its loop being reset
RerunSharingStats ==
    /\ Returned
    /\ first = None
    /\ input = None
    /\ parsed = None
    /\ first' = outcome
    /\ pc' = IF IsBfs THEN "bfs_while" ELSE "dfs_while"
    /\ queue' = IF IsBfs THEN <<start>> ELSE << >>
    /\ parent' = IF IsBfs THEN <<[key |-> start, val |-> None]>> ELSE << >>
    /\ nodes' = IF IsDfs THEN <<[state |-> start, parent |-> None, depth |-> 0]>>
                ELSE << >>
    /\ stack' = IF IsDfs THEN <<0>> ELSE << >>
    /\ state' = None
    /\ node_idx' = None
    /\ pending' = << >>
    /\ stats' = [stats EXCEPT !.generated = 1, !.found = FALSE,
                              !.solution_moves = None, !.stopped_reason = None]
    /\ path' = None
    /\ UNCHANGED <<start, depth_limit, node_limit, time_limit_sec, board, moves,
                   input, parsed>>

\* the caller calls the engine again with the arguments of the first call:
\* the locals of the call are created afresh
Rerun ==
    /\ Returned
    /\ first = None
    /\ input = None
    /\ parsed = None
    /\ first' = outcome
    /\ pc' = IF IsBfs THEN "bfs_while" ELSE "dfs_while"
    /\ queue' = IF IsBfs THEN <<start>> ELSE << >>
    /\ parent' = IF IsBfs THEN <<[key |-> start, val |-> None]>> ELSE << >>
    /\ nodes' = IF IsDfs THEN <<[state |-> start, parent |-> None, depth |-> 0]>>
                ELSE << >>
    /\ stack' = IF IsDfs THEN <<0>> ELSE << >>
    /\ state' = None
    /\ node_idx' = None
    /\ pending' = << >>
    /\ stats' = [new_stats(stats.algorithm) EXCEPT !.generated = 1]
    /\ path' = None
    /\ UNCHANGED <<start, depth_limit, node_limit, time_limit_sec, board, moves,
                   input, parsed>>

NextTwice == Next \/ Rerun

SpecTwice == Init /\ [][NextTwice]_vars

SecondReturned == Returned /\ first # None

SameOutcome ==
    /\ path = first.path
    /\ stats.expanded = first.expanded
    /\ stats.generated = first.generated

TimeExpired(reason) == reason # None /\ reason.msg = "Time limit reached"

\* C12 as stated: two runs of bfs, or of dfs_depth_limited, with identical
\* parameters (depth_limit, node_limit, time_limit) on the same start return
\* identical paths and identical expanded and generated counts.
C12_Original == SecondReturned => SameOutcome

\* C12: two runs of bfs, or of dfs_depth_limited, with identical parameters
\* on the same start return identical paths and identical expanded and
\* generated counts, provided the time limit, if set, expires in neither run.
C12_Deterministic ==
    (/\ SecondReturned
     /\ ~TimeExpired(first.stopped_reason)
     /\ ~TimeExpired(stats.stopped_reason)) => SameOutcome

C12_Witness ==
    /\ SecondReturned
    /\ time_limit_sec # None
    /\ path # None
    /\ first.path = path
    /\ stats.expanded >= 2

-----------------------------------------------------------------------------
(* Reading a board from a line of text *)

\* A text is a sequence of one-character strings.
DigitChars == <<"0", "1", "2", "3", "4", "5", "6", "7", "8", "9">>

IsDigit(c) == \E d \in DOMAIN DigitChars : DigitChars[d] = c

digit_value(c) == (CHOOSE d \in DOMAIN DigitChars : DigitChars[d] = c) - 1

IsSpace(c) == c = " "

\* str.strip(): the text without its leading and trailing whitespace
strip(s) ==
    LET inked == {i \in DOMAIN s : ~IsSpace(s[i])}
    IN  IF inked = {} THEN << >>
        ELSE SubSeq(s, CHOOSE i \in inked : \A j \in inked : i <= j,
                       CHOOSE i \in inked : \A j \in inked : i >= j)

\* text.split(","): the texts between successive commas
split(text) ==
    LET commas == {i \in DOMAIN text : text[i] = ","}
        \* the k-th comma, with position 0 before the first part
        cut(k) == IF k = 0 THEN 0
                  ELSE CHOOSE i \in commas :
                           Cardinality({j \in commas : j <= i}) = k
    IN  [k \in 1 .. (Cardinality(commas) + 1) |->
            SubSeq(text, cut(k - 1) + 1,
                   IF k > Cardinality(commas) THEN Len(text)
                   ELSE cut(k) - 1)]

\* the digits of an integer literal after its optional sign
unsigned(p) == IF p # << >> /\ Head(p) \in {"+", "-"} THEN Tail(p) ELSE p

\* whether int(p) succeeds (over the characters "0".."9", "+", "-", " ", "x")
is_int_literal(p) ==
    LET body == unsigned(strip(p))
    IN  body # << >> /\ \A i \in DOMAIN body : IsDigit(body[i])

RECURSIVE digits_value(_, _)
digits_value(body, acc) ==
    IF body = << >> THEN acc
    ELSE digits_value(Tail(body), acc * 10 + digit_value(Head(body)))

\* int(p) of a text for which it succeeds
int(p) ==
    LET q == strip(p)
    IN  IF Head(q) = "-" THEN 0 - digits_value(unsigned(q), 0)
        ELSE digits_value(unsigned(q), 0)

RECURSIVE sorted(_)
\* sorted(S) of a set of integers
sorted(S) ==
    IF S = {} THEN << >>
    ELSE LET m == CHOOSE x \in S : \A y \in S : x <= y
         IN  <<m>> \o sorted(S \ {m})

\* a raised ValueError: its fixed text, the count it quotes, its listed items
ValueError(msg, got, items) ==
    [value |-> None, error |-> [msg |-> msg, got |-> got, items |-> items]]

\* duplicated counting only a repeated tile of 0..24
duplicated_tile(nums) ==
    \E i, j \in DOMAIN nums : i # j /\ nums[i] = nums[j] /\ nums[i] \in Cells

\* len(nums) != len(set(nums))
duplicated(nums) == Len(nums) # Cardinality(Range(nums))

\* the items appended to msg for a tile set that is not 0..24
tile_set_items(nums) ==
    LET required == Cells
        got      == Range(nums)
        missing  == sorted(required \ got)
        extra    == sorted(got \ required)
    IN  (IF missing # << >>
         THEN <<[label |-> "Missing:", values |-> missing]>> ELSE << >>)
        \o (IF extra # << >>
            THEN <<[label |-> "Unexpected:", values |-> extra]>> ELSE << >>)
        \o (IF duplicated(nums)
            THEN <<[label |-> "Duplicates detected.", values |-> << >>]>>
            ELSE << >>)

parse_state_from_csv(text) ==
    LET stripped == [i \in DOMAIN split(strip(text)) |->
                        strip(split(strip(text))[i])]
        parts    == SelectSeq(stripped, LAMBDA p : p # << >>)
    IN  IF Len(parts) # N_TILES
        THEN ValueError("Expected N_TILES numbers, got", <<Len(parts)>>, << >>)
        ELSE IF \E i \in DOMAIN parts : ~is_int_literal(parts[i])
        THEN ValueError("All entries must be integers.", None, << >>)
        ELSE LET nums == [i \in DOMAIN parts |-> int(parts[i])]
             IN  IF Range(nums) # Cells
                 THEN ValueError("Invalid tile set.", None,
                                 tile_set_items(nums))
                 ELSE [value |-> [c \in Cells |-> nums[c + 1]],
                       error |-> None]

-----------------------------------------------------------------------------
(* Lines of input: a board written out, with a few of its parts altered *)

RECURSIVE str(_)
\* the decimal text of an integer
str(n) ==
    IF n < 0 THEN <<"-">> \o str(0 - n)
    ELSE IF n < 10 THEN <<DigitChars[n + 1]>>
    ELSE str(n \div 10) \o <<DigitChars[(n % 10) + 1]>>

\* a part of a line: its text, and what it stands for ("int" with its value,
\* "bad" for text that is no integer, "blank" for nothing but whitespace)
Token(txt, kind, val) == [txt |-> txt, kind |-> kind, val |-> val]

Plain(n) == Token(str(n), "int", n)

TokenChoices ==
    { Plain(0 - 1), Plain(0), Plain(N_TILES),
      Token(<<" ">> \o str(7) \o <<" ">>, "int", 7),
      Token(<<"+">> \o str(3), "int", 3),
      Token(<<"x">>, "bad", 0),
      Token(str(1) \o <<" ">> \o str(2), "bad", 0),
      Token(<<" ">>, "blank", 0) }

\* the line a user types for board b
Line(b) == [i \in 1 .. N_TILES |-> Plain(b[i - 1])]

\* the lines one alteration away: a part replaced, a part added, a part dropped
Edits(line) ==
    {[line EXCEPT ![p] = t] : p \in {1, Len(line)} \ {0}, t \in TokenChoices}
    \cup {Append(line, t) : t \in TokenChoices}
    \cup (IF line # << >> THEN {Front(line)} ELSE {})

RECURSIVE Edited(_, _)
Edited(lines, k) ==
    IF k = 0 THEN lines
    ELSE Edited(lines \cup UNION {Edits(l) : l \in lines}, k - 1)

WellFormedLines == {Line(GOAL_STATE), Line(Twin(GOAL_STATE))}

InputLines == Edited(WellFormedLines, MaxEdits)

RECURSIVE csv_text(_)
\* the parts of a line joined by commas
csv_text(line) ==
    IF line = << >> THEN << >>
    ELSE IF Len(line) = 1 THEN line[1].txt
    ELSE line[1].txt \o <<",">> \o csv_text(Tail(line))

ParseInit ==
    /\ input \in InputLines
    /\ parsed = None
    /\ board = None
    /\ moves = 0
    /\ pc = "idle"
    /\ start = None
    /\ depth_limit = None
    /\ node_limit = None
    /\ time_limit_sec = None
    /\ queue = << >>
    /\ parent = << >>
    /\ nodes = << >>
    /\ stack = << >>
    /\ state = None
    /\ node_idx = None
    /\ pending = << >>
    /\ stats = None
    /\ path = None
    /\ first = None

\* state = parse_state_from_csv(raw)
ReadLine ==
    /\ input # None
    /\ parsed = None
    /\ parsed' = parse_state_from_csv(strip(csv_text(input)))
    /\ UNCHANGED <<pc, start, depth_limit, node_limit, time_limit_sec, queue,
                   parent, nodes, stack, state, node_idx, pending, stats,
                   path, board, moves, first, input>>

\* a ValueError was caught: the prompt is shown again, and a well-formed line
\* is typed
TryAgain ==
    /\ parsed # None
    /\ parsed.error # None
    /\ input' \in WellFormedLines
    /\ parsed' = None
    /\ UNCHANGED <<pc, start, depth_limit, node_limit, time_limit_sec, queue,
                   parent, nodes, stack, state, node_idx, pending, stats,
                   path, board, moves, first>>

ParseNext == ReadLine \/ TryAgain

SpecParse == ParseInit /\ [][ParseNext]_vars

\* the parts of the line that are tokens: those not made of whitespace only
Tokens(line) == SelectSeq(line, LAMBDA t : t.kind # "blank")

\* the item of a tile set error with the given label, None when not listed
Item(items, label) ==
    IF \E k \in DOMAIN items : items[k].label = label
    THEN <<items[CHOOSE k \in DOMAIN items : items[k].label = label]>>
    ELSE None

\* the item lists exactly the values of S, in ascending order, and is left out
\* when S is empty
Lists(item, S) ==
    IF S = {} THEN item = None
    ELSE /\ item # None
         /\ Range(item[1].values) = S
         /\ Len(item[1].values) = Cardinality(S)
         /\ \A i, j \in DOMAIN item[1].values :
                i < j => item[1].values[i] < item[1].values[j]

\* C13: parse_state_from_csv returns the values in input order exactly when
\* the line has 25 tokens (parts that are not blank), each an integer, whose
\* values are a permutation of 0..24.  Otherwise it raises an error, decided
\* by the token count first, then by a token that is no integer, then by the
\* tile set; the tile set error lists the missing values, the out-of-range
\* values and the presence of duplicates as separate items, duplicates being
\* listed whenever some value occurs twice.
C13_ParseValidates ==
    (parsed # None) =>
        LET toks == Tokens(input)
            vals == [i \in DOMAIN toks |-> toks[i].val]
            err  == parsed.error
        IN  IF Len(toks) # N_TILES
            THEN /\ parsed.value = None
                 /\ err.msg = "Expected N_TILES numbers, got"
                 /\ err.got = <<Len(toks)>>
            ELSE IF \E i \in DOMAIN toks : toks[i].kind # "int"
            THEN /\ parsed.value = None
                 /\ err.msg = "All entries must be integers."
            ELSE IF \E c \in Cells :
                        Cardinality({i \in DOMAIN vals : vals[i] = c}) # 1
            THEN /\ parsed.value = None
                 /\ err.msg = "Invalid tile set."
                 /\ Lists(Item(err.items, "Missing:"), Cells \ Range(vals))
                 /\ Lists(Item(err.items, "Unexpected:"), Range(vals) \ Cells)
                 /\ (Item(err.items, "Duplicates detected.") # None
                        <=> \E i, j \in DOMAIN vals :
                                i # j /\ vals[i] = vals[j])
                 /\ \A i, j \in DOMAIN err.items :
                        err.items[i].label = err.items[j].label => i = j
            ELSE /\ err = None
                 /\ \A c \in Cells : parsed.value[c] = vals[c + 1]

\* a line of 25 integers with a value out of range typed twice: all three
\* items are listed
C13_Witness ==
    /\ parsed # None
    /\ parsed.error # None
    /\ parsed.error.msg = "Invalid tile set."
    /\ Len(parsed.error.items) = 3
    /\ \E i, j \in DOMAIN input :
           i # j /\ input[i].val = N_TILES /\ input[j].val = N_TILES

UnlimitedBfs == IsBfs /\ NoLimits

\* every generated state is still queued, is the one being expanded, or has
\* all its neighbors generated
BfsClosed ==
    \A i \in DOMAIN parent :
        \/ parent[i].key \in Range(queue)
        \/ pc = "bfs_for" /\ parent[i].key = state
        \/ \A n \in Range(get_neighbors(parent[i].key)) : InDict(parent, n)

\* a step generates a state, or else shortens the queue, or else shortens the
\* list of neighbors left to look at, or returns
BfsProgress ==
    \/ stats'.generated > stats.generated
    \/ stats'.generated = stats.generated /\ Len(queue') < Len(queue)
    \/ /\ stats'.generated = stats.generated
       /\ Len(queue') = Len(queue)
       /\ Len(pending') < Len(pending)
    \/ pc' = "returned"

C14_Case == UnlimitedBfs /\ AtStart /\ Distance(start) >= 0

PushedOnce ==
    \A i \in Range(stack') \ Range(stack) : i >= Len(nodes) /\ i < Len(nodes')

\* C15: dfs_depth_limited terminates for every start and depth limit, with
\* or without node and time limits.  Every node has depth <= depth_limit, no
\* index is on the stack twice and an index once popped is never pushed
\* again.  A run without limits whose stack empties returns no path, with
\* found = false and no stop reason, having expanded each node above the
\* depth limit exactly once.
C15_DfsTerminates ==
    /\ <>(IsDfs => Returned)
    /\ [](IsDfs =>
            /\ NoRepeat(stack)
            /\ \A i \in NodeIndexes : node_at(nodes, i).depth <= depth_limit
            /\ (Returned /\ NoLimits /\ ~stats.found =>
                   /\ path = None
                   /\ stack = << >>
                   /\ stats.stopped_reason = None
                   /\ stats.expanded =
                        Cardinality({i \in NodeIndexes :
                                        node_at(nodes, i).depth < depth_limit})))
    /\ [][IsDfs => PushedOnce]_vars

\* an unlimited run from an unsolvable start has emptied its stack
C15_Witness ==
    /\ IsDfs /\ NoLimits /\ Returned
    /\ ~stats.found
    /\ stack = << >>
    /\ depth_limit = MaxDepthLimit
    /\ stats.expanded > depth_limit

\* the run has been stopped by the node limit
NodeStopped ==
    /\ stats.stopped_reason # None
    /\ stats.stopped_reason.msg = "Node limit reached"

\* the step generates a node and thereby reaches the node limit
ReachesNodeLimit ==
    /\ node_limit # None
    /\ stats'.generated > stats.generated
    /\ stats'.generated >= node_limit[1]

\* C16: in bfs and dfs_depth_limited the step whose generated node makes
\* generated >= node_limit sets the node-limit reason, empties the frontier
\* and leaves the for loop; the only step after it is the return of no path,
\* which pops nothing, generates nothing and leaves stats alone, also when
\* the node just generated is the goal.  So generated never exceeds
\* max(node_limit, 2).
C16_NodeLimitStopsAtOnce ==
    /\ [](node_limit # None => stats.generated <= Max(node_limit[1], 2))
    /\ [](NodeStopped /\ Returned => path = None /\ ~stats.found)
    /\ [][ReachesNodeLimit =>
            /\ stats'.stopped_reason = node_reason(node_limit[1])
            /\ queue' = << >> /\ stack' = << >> /\ pending' = << >>
            /\ pc' \in {"bfs_while", "dfs_while"}]_vars
    /\ [][NodeStopped =>
            /\ pc' = "returned"
            /\ path' = None
            /\ stats' = stats
            /\ state' = state /\ node_idx' = node_idx
            /\ parent' = parent /\ nodes' = nodes]_vars

\* a run stopped by the node limit on generating the goal has returned
C16_Witness ==
    /\ Returned
    /\ NodeStopped
    /\ node_limit[1] >= 2
    /\ stats.generated = node_limit[1]
    /\ \/ IsBfs /\ Last(parent).key = GOAL_STATE
       \/ IsDfs /\ Last(nodes).state = GOAL_STATE

\* the run has been stopped by the time limit
TimeStopped ==
    /\ stats.stopped_reason # None
    /\ stats.stopped_reason.msg = "Time limit reached"

\* the head of the main loop, with a frontier to pop from
AtLoopHead ==
    \/ pc = "bfs_while" /\ queue # << >>
    \/ pc = "dfs_while" /\ stack # << >>

\* the step sets the time-limit reason and returns no path, and touches
\* neither the frontier nor the search state nor the counters
TimeStopStep ==
    /\ time_limit_sec # None
    /\ stats' = [stats EXCEPT !.stopped_reason = time_reason(time_limit_sec[1])]
    /\ ~stats'.found
    /\ pc' = "returned"
    /\ path' = None
    /\ queue' = queue /\ stack' = stack
    /\ state' = state /\ node_idx' = node_idx
    /\ parent' = parent /\ nodes' = nodes

\* the step pops the next state of the frontier, no stop reason being set
PopStep ==
    /\ stats'.stopped_reason = None
    /\ \/ IsBfs /\ state' = Head(queue) /\ queue' = Tail(queue)
       \/ IsDfs /\ node_idx' = <<Last(stack)>>
                /\ state' = node_at(nodes, Last(stack)).state

\* C17: the time limit is looked at only at the head of a main-loop
\* iteration, before the pop and the goal test.  A step from the loop head is
\* either the time-limit stop, which returns no path with found = false and
\* the time-limit reason without popping, goal-testing or expanding (also
\* when the goal is next in the frontier), or the pop; a step inside the for
\* loop never sets the time-limit reason, and the for loop can always go on
\* to its next neighbor.
C17_TimeLimitAtLoopHead ==
    /\ [](TimeStopped => Returned /\ path = None /\ ~stats.found)
    /\ [](pc = "bfs_for" /\ stats.generated < MaxGenerated
            => ENABLED (BfsSkip \/ BfsGenerate))
    /\ [](pc = "dfs_for" => ENABLED (DfsSkip \/ DfsGenerate))
    /\ [][AtLoopHead => (TimeStopStep \/ PopStep)]_vars
    /\ [][~AtLoopHead => ~(stats'.stopped_reason # None
                            /\ stats'.stopped_reason.msg = "Time limit reached"
                            /\ stats.stopped_reason = None)]_vars

\* a run stopped by the time limit with the goal next in the frontier, after
\* at least one expansion
C17_Witness ==
    /\ Returned
    /\ TimeStopped
    /\ stats.expanded >= 1
    /\ \/ IsBfs /\ queue # << >> /\ Head(queue) = GOAL_STATE
       \/ IsDfs /\ stack # << >>
                /\ node_at(nodes, Last(stack)).state = GOAL_STATE

\* the entry of parent inserted i-th: the start mapped to None, or a state
\* mapped to an earlier key it is one blank move away from
WellParented(i) ==
    IF i = 1 THEN parent[i] = [key |-> start, val |-> None]
    ELSE /\ parent[i].val # None
         /\ \E j \in 1 .. (i - 1) : parent[j].key = parent[i].val
         /\ IsMove(parent[i].val, parent[i].key)

\* C18: in bfs the parent map is exactly the set of generated states.  It
\* only grows; stats.generated is its number of keys; every queued state is a
\* key and no state is queued twice or queued again later; the start alone
\* maps to None and every other key maps to a key inserted earlier of which it
\* is a neighbor; expanded <= generated.
C18_ParentMapInvariants ==
    /\ [](IsBfs =>
            /\ stats.generated = Cardinality(Keys(parent))
            /\ Len(parent) = Cardinality(Keys(parent))
            /\ Range(queue) \subseteq Keys(parent)
            /\ NoRepeat(queue)
            /\ \A i \in DOMAIN parent : WellParented(i)
            /\ stats.expanded <= stats.generated)
    /\ [][IsBfs =>
            /\ Len(parent') >= Len(parent)
            /\ SubSeq(parent', 1, Len(parent)) = parent
            /\ \A s \in Range(queue') \ Range(queue) :
                   s \notin Keys(parent) /\ s \in Keys(parent')]_vars

\* a run that has expanded several states, with states still queued
C18_Witness ==
    /\ IsBfs
    /\ stats.expanded >= 3
    /\ Len(parent) >= 8
    /\ Len(queue) >= 2
    /\ \E i \in DOMAIN parent : parent[i].val # None /\ parent[i].val # start

RECURSIVE ChainStates(_)
\* the states of the nodes from node i up to the root, both included
ChainStates(i) ==
    {node_at(nodes, i).state}
        \cup (IF node_at(nodes, i).parent = None THEN {}
              ELSE ChainStates(node_at(nodes, i).parent[1]))

\* C19: in the for loop of dfs_depth_limited the neighbor at hand is skipped
\* exactly when its state is the state of a node on the chain from the
\* current node to the root; any other neighbor is appended to the node list
\* as a child of the current node and its index pushed (the push being
\* cleared only by the node limit), whether or not its state is held by a
\* node elsewhere in the list.  generated always equals the length of the
\* node list.
C19_SkipOnlyOnCurrentPath ==
    /\ [](IsDfs => stats.generated = Len(nodes))
    /\ [][pc = "dfs_for" =>
            IF Head(pending) \in ChainStates(node_idx[1])
            THEN nodes' = nodes /\ stack' = stack /\ stats' = stats
            ELSE /\ nodes' = Append(nodes,
                        [state |-> Head(pending), parent |-> node_idx,
                         depth |-> node_at(nodes, node_idx[1]).depth + 1])
                 /\ stats'.generated = stats.generated + 1
                 /\ \/ stack' = Append(stack, Len(nodes))
                    \/ ReachesNodeLimit /\ stack' = << >>]_vars

\* the node generated last holds a state that an earlier node off its chain
\* holds too
C19_Witness ==
    /\ IsDfs
    /\ Len(nodes) >= 2
    /\ \E i \in 1 .. (Len(nodes) - 1) : nodes[i].state = Last(nodes).state

RECURSIVE ChainIndexes(_)
\* the indexes of the nodes from node i up to the root, both included
ChainIndexes(i) ==
    {i} \cup (IF node_at(nodes, i).parent = None THEN {}
              ELSE ChainIndexes(node_at(nodes, i).parent[1]))

\* the place of the blank move from board a to board b in the order up, down,
\* left, right
DirectionRank(a, b) ==
    LET offsets == <<0 - SIZE, SIZE, 0 - 1, 1>>
    IN  CHOOSE k \in DOMAIN offsets :
            offsets[k] = zero_index(b) - zero_index(a)

\* the step pops the newest index, the top of the stack; the node popped is a
\* child of the node popped before it or of one of that node's ancestors, and
\* if it is a child of that node it is the child generated last
PopsInPreOrder ==
    LET i == stack[Len(stack)]
    IN  /\ node_idx' = <<i>>
        /\ stack' = SubSeq(stack, 1, Len(stack) - 1)
        /\ \A k \in Range(stack') : k < i
        /\ node_idx # None =>
              /\ node_at(nodes, i).parent # None
              /\ node_at(nodes, i).parent[1] \in ChainIndexes(node_idx[1])
              /\ node_at(nodes, i).parent = node_idx => i = Len(nodes) - 1

\* C20: dfs_depth_limited pushes the children of a node in the order up,
\* down, left, right and pops the newest index first.  The indexes on the
\* stack increase from bottom to top, so a node is popped only when every
\* node generated after it, its later siblings and their whole subtrees, has
\* been popped; the pops follow the search tree in pre-order, children taken
\* in the reverse of their generation order.
C20_ReversePreOrder ==
    /\ [](IsDfs => \A a, b \in DOMAIN stack : a < b => stack[a] < stack[b])
    /\ [][(IsDfs /\ pc = "dfs_while" /\ stack' # stack) => PopsInPreOrder]_vars
    /\ [][(IsDfs /\ Len(nodes') > Len(nodes)
             /\ nodes'[Len(nodes')].parent = nodes[Len(nodes)].parent) =>
            DirectionRank(state, nodes[Len(nodes)].state)
                < DirectionRank(state, nodes'[Len(nodes')].state)]_vars

\* the node just popped has a later sibling that was expanded before it
C20_Witness ==
    /\ IsDfs
    /\ node_idx # None
    /\ \E j \in NodeIndexes :
           /\ j > node_idx[1]
           /\ node_at(nodes, j).parent = node_at(nodes, node_idx[1]).parent
           /\ \E k \in NodeIndexes : node_at(nodes, k).parent = <<j>>

====
